---- MODULE Spec2Model ----
(***************************************************************************)
(* Model of the gwsumm command-line driver (gwsumm/__main__.py): option    *)
(* and configuration resolution, channel-group expansion, tab linking,     *)
(* tab processing and HTML writing, as one sequential state machine.       *)
(***************************************************************************)
EXTENDS Integers, Sequences, FiniteSets, TLC

VARIABLES
    pc,        \* position of the script
    err,       \* the exception that ended the run ("" while none)
    opts,      \* optparse values (line 110)
    ini,       \* contents of the INI files given with --config-file
    today,     \* day number of datetime.utcnow()
    ifoDefault,\* config: the 'ifo' option of [DEFAULT]
    ifo,       \* the module-level name ifo (line 122)
    sections,  \* config._sections: ordered [name, options] (tab-* ones apart)
    general,   \* config: gps-start-time / gps-end-time of [general]
    resolved,  \* which branch of lines 142-202 set the GPS times
    mode,      \* globalv.MODE
    alltabs,   \* the list alltabs (line 299): Tab objects, by index
    tabs,      \* the mapping tabs (line 305), then the sorted list (317-318)
    i,         \* index of the running for-loop over alltabs
    fs,        \* output directory tree: path -> set of entries
    log        \* calls of Tab.process, of mkdir for a tab and of build_html

vars == <<pc, err, opts, ini, today, ifoDefault, ifo, sections, general,
          resolved, mode, alltabs, tabs, i, fs, log>>

----------------------------------------------------------------------------
(* Bounds of the model *)

MaxTabs == 3
MaxSections == 3
MaxFiles == 2
MaxGps == 2

----------------------------------------------------------------------------
(* Python values *)

\* An optparse value or an optional attribute: <<>> is None, <<v>> is v.
NoneV == <<>>
Some(v) == <<v>>

\* bool(x) of an optional string: None and '' are false.
TruthyStr(o) == o # NoneV /\ o[1] # ""

\* bool(x) of an optional integer: None and 0 are false.
TruthyInt(o) == o # NoneV /\ o[1] # 0

IsGiven(o) == o # NoneV

Range(s) == {s[k] : k \in DOMAIN s}

SeqsUpTo(S, n) == UNION {[1..k -> S] : k \in 0..n}

----------------------------------------------------------------------------
(* Dates.  A datetime is the number of days since 1980-01-06 00:00 UTC.    *)

\* datetime.datetime.strptime on the strings the model supplies; a string
\* outside the table raises ValueError.
StrptimeDay == ("19800106" :> 0) @@ ("19800107" :> 1) @@ ("19810630" :> 541)
StrptimeMonth == ("198002" :> 26) @@ ("198106" :> 512)
StrptimeYear == ("1980" :> (0 - 5)) @@ ("1981" :> 361)

\* datetime + relativedelta(months=1), on the parsed months
PlusOneMonth == (26 :> 55) @@ (512 :> 542)

\* datetime + relativedelta(years=1), on the parsed years
PlusOneYear == ((0 - 5) :> 361) @@ (361 :> 726)

\* datetime.timetuple().tm_wday: Monday is 0; 1980-01-06 was a Sunday.
Weekday(d) == (d + 6) % 7

\* lal.gpstime.utc_to_gps: seconds since the GPS epoch, leap seconds
\* included (the first one after the epoch was added on 1981-07-01).
utc_to_gps(d) == d * 86400 + (IF d >= 542 THEN 1 ELSE 0)

----------------------------------------------------------------------------
(* Configuration values *)

\* Section names and the 'channels' value are strings, held as sequences of
\* tokens, so that startswith, replace and split are computed on them.
PH == "%(ifo)s"

\* str.startswith(tok), for a one-token prefix
StartsWith(name, tok) == Len(name) >= 1 /\ name[1] = tok

\* section.replace('%(ifo)s', ifo): every occurrence is replaced
Replace(name, old, new) ==
    [k \in DOMAIN name |-> IF name[k] = old THEN new ELSE name[k]]

Names(secs) == {secs[k].name : k \in DOMAIN secs}

IndexOf(secs, name) == CHOOSE k \in DOMAIN secs : secs[k].name = name

Without(secs, k) ==
    [j \in 1..(Len(secs) - 1) |-> IF j < k THEN secs[j] ELSE secs[j + 1]]

\* OrderedDict.__setitem__: an existing key keeps its place, a new key is
\* appended
SetItem(secs, name, options) ==
    IF name \in Names(secs)
    THEN [secs EXCEPT ![IndexOf(secs, name)].opts = options]
    ELSE Append(secs, [name |-> name, opts |-> options])

\* config._sections[s2] = config._sections.pop(section)
RenameSection(secs, name, s2) ==
    LET k == IndexOf(secs, name)
    IN  SetItem(Without(secs, k), s2, secs[k].opts)

----------------------------------------------------------------------------
(* Lines 112-118: read configuration file *)

\* ConfigParser.read over the files in order: an 'ifo' line in a file's
\* [DEFAULT] overwrites the value the parser already holds.
RECURSIVE ReadDefaults(_, _)
ReadDefaults(current, files) ==
    IF files = <<>> THEN current
    ELSE ReadDefaults(IF files[1] # NoneV THEN files[1] ELSE current,
                      Tail(files))

\* a variant: the files are read first and --ifo is set afterwards
ConfigIfoSetAfterRead(cli, files) ==
    IF TruthyStr(cli) THEN cli ELSE ReadDefaults(NoneV, files)

\* config.set(None, 'ifo', opts.ifo) when opts.ifo is true, then config.read
ConfigIfo(cli, files) ==
    ReadDefaults(IF TruthyStr(cli) THEN cli ELSE NoneV, files)

ReadConfiguration ==
    /\ pc = "read_config"
    /\ ifoDefault' = ConfigIfo(opts.ifo, ini.ifos)
    /\ sections' = ini.sections
    /\ pc' = "parse_ifo"
    /\ UNCHANGED <<err, opts, ini, today, ifo, general, resolved, mode,
                   alltabs, tabs, i, fs, log>>

(* Lines 120-126: parse IFO *)
ParseIFO ==
    /\ pc = "parse_ifo"
    /\ IF ifoDefault = NoneV
       THEN /\ err' = "ValueError: IFO must be given"
            /\ pc' = "error"
            /\ ifo' = ifo
       ELSE /\ ifo' = ifoDefault
            /\ pc' = "interpolate"
            /\ err' = err
    /\ UNCHANGED <<opts, ini, today, ifoDefault, sections, general, resolved,
                   mode, alltabs, tabs, i, fs, log>>

(* Lines 128-132: interpolate section names *)
RECURSIVE InterpolateFrom(_, _, _)
InterpolateFrom(secs, todo, code) ==
    IF todo = <<>> THEN secs
    ELSE IF StartsWith(todo[1], PH)
         THEN InterpolateFrom(
                  RenameSection(secs, todo[1], Replace(todo[1], PH, code)),
                  Tail(todo), code)
         ELSE InterpolateFrom(secs, Tail(todo), code)

\* the loop runs over config.sections(), a list made before the loop
Interpolate(secs, code) ==
    InterpolateFrom(secs, [k \in DOMAIN secs |-> secs[k].name], code)

InterpolateSectionNames ==
    /\ pc = "interpolate"
    /\ sections' = Interpolate(sections, ifo[1])
    /\ pc' = "check_time"
    /\ UNCHANGED <<err, opts, ini, today, ifoDefault, ifo, general, resolved,
                   mode, alltabs, tabs, i, fs, log>>

----------------------------------------------------------------------------
(* Lines 134-140: check time options *)

Count(b) == IF b THEN 1 ELSE 0

\* N of line 135: the number of these four options that are not None
NTimeOptions(o) ==
    Count(IsGiven(o.day)) + Count(IsGiven(o.month))
    + Count(IsGiven(o.gps_start_time)) + Count(IsGiven(o.gps_end_time))

\* the condition of line 137
TimeOptionsConflict(o) ==
    /\ NTimeOptions(o) > 1
    /\ ~(TruthyInt(o.gps_start_time) /\ TruthyInt(o.gps_end_time))

CheckTimeOptions ==
    /\ pc = "check_time"
    /\ IF TimeOptionsConflict(opts)
       THEN /\ err' = "OptionValueError: only one of"
            /\ pc' = "error"
       ELSE /\ pc' = "resolve_time"
            /\ err' = err
    /\ UNCHANGED <<opts, ini, today, ifoDefault, ifo, sections, general,
                   resolved, mode, alltabs, tabs, i, fs, log>>

(* Lines 142-202: the if/elif chain that sets opts.gps_start_time and
   opts.gps_end_time.  The result is [branch, error, start, end]. *)
TimeResult(branch, error, start, end) ==
    [branch |-> branch, error |-> error, start |-> start, end |-> end]

RaisedIn(branch, error) == TimeResult(branch, error, NoneV, NoneV)

\* the 'start-of-week' test of lines 160-168
WrongWeekday(d, startOfWeek) ==
    startOfWeek # NoneV /\ startOfWeek[1] # Weekday(d)

ResolveTimeMode(o, startOfWeek, now) ==
    IF TruthyStr(o.day) THEN
        IF o.day[1] \notin DOMAIN StrptimeDay
        THEN RaisedIn("day", "OptionValueError: --day malformed")
        ELSE LET d == StrptimeDay[o.day[1]]
             IN  TimeResult("day", "", Some(utc_to_gps(d)),
                            Some(utc_to_gps(d + 1)))
    ELSE IF TruthyStr(o.week) THEN
        IF o.week[1] \notin DOMAIN StrptimeDay
        THEN RaisedIn("week", "OptionValueError: --week malformed")
        ELSE LET d == StrptimeDay[o.week[1]]
             IN  IF WrongWeekday(d, startOfWeek)
                 THEN RaisedIn("week", "OptionValueError: start-of-week")
                 ELSE TimeResult("week", "", Some(utc_to_gps(d)),
                                 Some(utc_to_gps(d + 7)))
    ELSE IF TruthyStr(o.month) THEN
        IF o.month[1] \notin DOMAIN StrptimeMonth
        THEN RaisedIn("month", "OptionValueError: --month malformed")
        ELSE LET d == StrptimeMonth[o.month[1]]
             IN  TimeResult("month", "", Some(utc_to_gps(d)),
                            Some(utc_to_gps(PlusOneMonth[d])))
    ELSE IF TruthyStr(o.year) THEN
        IF o.year[1] \notin DOMAIN StrptimeYear
        THEN RaisedIn("year", "OptionValueError: --year malformed")
        ELSE LET d == StrptimeYear[o.year[1]]
             IN  TimeResult("year", "", Some(utc_to_gps(d)),
                            Some(utc_to_gps(PlusOneYear[d])))
    ELSE IF TruthyInt(o.gps_start_time) \/ TruthyInt(o.gps_end_time) THEN
        IF ~(TruthyInt(o.gps_start_time) /\ TruthyInt(o.gps_end_time))
        THEN RaisedIn("gps", "OptionValueError: give both")
        ELSE TimeResult("gps", "", o.gps_start_time, o.gps_end_time)
    ELSE TimeResult("today", "", Some(utc_to_gps(now)),
                    Some(utc_to_gps(now + 1)))

ResolveTime ==
    /\ pc = "resolve_time"
    /\ LET r == ResolveTimeMode(opts, ini.startOfWeek, today)
       IN  /\ resolved' = r.branch
           /\ IF r.error # ""
              THEN /\ err' = r.error
                   /\ pc' = "error"
                   /\ opts' = opts
              ELSE /\ opts' = [opts EXCEPT !.gps_start_time = r.start,
                                           !.gps_end_time = r.end]
                   /\ pc' = "set_general"
                   /\ err' = err
    /\ UNCHANGED <<ini, today, ifoDefault, ifo, sections, general, mode,
                   alltabs, tabs, i, fs, log>>

(* Lines 204-213: store the span in [general]; the section is added when
   it is missing, and both options are set on either path. *)
SetGeneral ==
    /\ pc = "set_general"
    /\ general' = [start |-> opts.gps_start_time, end |-> opts.gps_end_time]
    /\ pc' = "set_mode"
    /\ UNCHANGED <<err, opts, ini, today, ifoDefault, ifo, sections,
                   resolved, mode, alltabs, tabs, i, fs, log>>

(* Lines 219-231: set mode.  In the last branch of the chain opts.day was
   assigned today's date, which is true. *)
ModeOf(o, branch) ==
    IF TruthyStr(o.day) \/ branch = "today" THEN "DAY"
    ELSE IF TruthyStr(o.week) THEN "WEEK"
    ELSE IF TruthyStr(o.month) THEN "MONTH"
    ELSE IF TruthyStr(o.year) THEN "YEAR"
    ELSE "GPS"

SetMode ==
    /\ pc = "set_mode"
    /\ mode' = ModeOf(opts, resolved)
    /\ pc' = "expand_channels"
    /\ UNCHANGED <<err, opts, ini, today, ifoDefault, ifo, sections, general,
                   resolved, alltabs, tabs, i, fs, log>>

----------------------------------------------------------------------------
(* Lines 247-258: parse channel groups into individual sections *)

GROUP == "channels-"

\* str.split(','): the pieces between the commas, empty pieces kept
RECURSIVE SplitFrom(_, _, _)
SplitFrom(value, piece, done) ==
    IF value = <<>> THEN Append(done, piece)
    ELSE IF value[1] = ","
         THEN SplitFrom(Tail(value), <<>>, Append(done, piece))
         ELSE SplitFrom(Tail(value), Append(piece, value[1]), done)

Split(value) == SplitFrom(value, <<>>, <<>>)

\* a variant: 'channels' is read with items['channels'], not popped
ItemsNotPopped(options) == options

\* items after items.pop('channels')
OtherItems(options) ==
    [key \in (DOMAIN options) \ {"channels"} |-> options[key]]

\* the inner loop (255-258): add_section raises DuplicateSectionError for
\* a name the parser already holds; config.set copies every other item
RECURSIVE AddChannelSections(_, _, _)
AddChannelSections(secs, names, items) ==
    IF names = <<>> THEN [secs |-> secs, error |-> ""]
    ELSE IF names[1] \in Names(secs)
         THEN [secs |-> secs, error |-> "DuplicateSectionError"]
         ELSE AddChannelSections(
                  Append(secs, [name |-> names[1], opts |-> items]),
                  Tail(names), items)

\* the outer loop (248-254) over config.sections(), a list made before it
RECURSIVE ExpandFrom(_, _)
ExpandFrom(secs, todo) ==
    IF todo = <<>> THEN [secs |-> secs, error |-> ""]
    ELSE IF ~StartsWith(todo[1], GROUP) THEN ExpandFrom(secs, Tail(todo))
    ELSE LET options == secs[IndexOf(secs, todo[1])].opts
         IN  IF "channels" \notin DOMAIN options
             THEN [secs |-> secs, error |-> "NoOptionError"]
             ELSE LET r == AddChannelSections(secs, Split(options["channels"]),
                                              OtherItems(options))
                  IN  IF r.error # "" THEN r
                      ELSE ExpandFrom(r.secs, Tail(todo))

ExpandGroups(secs) ==
    ExpandFrom(secs, [k \in DOMAIN secs |-> secs[k].name])

ExpandChannelGroups ==
    /\ pc = "expand_channels"
    /\ LET r == ExpandGroups(sections)
       IN  /\ sections' = r.secs
           /\ IF r.error # ""
              THEN /\ err' = r.error
                   /\ pc' = "error"
              ELSE /\ pc' = "build_dirs"
                   /\ err' = err
    /\ UNCHANGED <<opts, ini, today, ifoDefault, ifo, general, resolved,
                   mode, alltabs, tabs, i, fs, log>>

----------------------------------------------------------------------------
(* Output tree and call log *)

\* utils.mkdir: creates the directory unless it is already there
Mkdir(tree, path) ==
    IF path \in DOMAIN tree THEN tree
    ELSE [q \in (DOMAIN tree) \cup {path} |->
              IF q = path THEN {} ELSE tree[q]]

\* Tab.build_html writes the page of the tab into the tab's directory
WritePage(tree, path) == [tree EXCEPT ![path] = @ \cup {"index.html"}]

Call(op, tab, path, kw, nav, about) ==
    [op |-> op, tab |-> tab, path |-> path, kw |-> kw, nav |-> nav,
     about |-> about]

ABOUT == 0
AboutPath == <<"about">>
AboutIndex == <<"about", "index.html">>
PlotDir == <<"plots">>

(* Lines 280-285: build directories (relative to the output directory) *)
BuildDirectories ==
    /\ pc = "build_dirs"
    /\ fs' = Mkdir(fs, PlotDir)
    /\ pc' = "read_tabs"
    /\ UNCHANGED <<err, opts, ini, today, ifoDefault, ifo, sections, general,
                   resolved, mode, alltabs, tabs, i, log>>

----------------------------------------------------------------------------
(* Lines 298-302: read all tabs *)

NoParent == [kind |-> "none", name |-> "", tab |-> 0]
ParentName(n) == [kind |-> "name", name |-> n, tab |-> 0]
ParentTab(k) == [kind |-> "tab", name |-> "", tab |-> k]

\* SummaryTab.from_ini: one Tab per tab-* section, with the name and the
\* parent name the section declares
FromIni(sec) ==
    [name |-> sec.name,
     parent |-> IF sec.parent = NoneV THEN NoParent
                ELSE ParentName(sec.parent[1]),
     children |-> <<>>]

\* bool(tab.parent): None and '' are false, a Tab object is true
HasParent(t) ==
    \/ t.parent.kind = "tab"
    \/ t.parent.kind = "name" /\ t.parent.name # ""

ReadTabs ==
    /\ pc = "read_tabs"
    /\ alltabs' = [k \in DOMAIN ini.tabsecs |-> FromIni(ini.tabsecs[k])]
    /\ pc' = "link_tabs"
    /\ UNCHANGED <<err, opts, ini, today, ifoDefault, ifo, sections, general,
                   resolved, mode, tabs, i, fs, log>>

(* Lines 304-312: sort tabs into hierarchical list *)

EmptyDict == [n \in {} |-> 0]

\* a variant: tabs.setdefault(tab.name, tab), the first tab of a name stays
DictSetDefault(d, key, val) ==
    IF key \in DOMAIN d THEN d
    ELSE [n \in (DOMAIN d) \cup {key} |-> IF n = key THEN val ELSE d[n]]

DictSet(d, key, val) ==
    [n \in (DOMAIN d) \cup {key} |-> IF n = key THEN val ELSE d[n]]

\* lines 305-308: tabs[tab.name] = tab for every tab without a parent
RECURSIVE CollectRoots(_, _, _)
CollectRoots(all, k, d) ==
    IF k > Len(all) THEN d
    ELSE CollectRoots(all, k + 1,
                      IF HasParent(all[k]) THEN d
                      ELSE DictSet(d, all[k].name, k))

\* a variant: tabs.get(tab.parent), a tab whose parent is unknown is skipped
RECURSIVE LinkChildrenLenient(_, _, _)
LinkChildrenLenient(all, k, d) ==
    IF k > Len(all) THEN [all |-> all, error |-> ""]
    ELSE IF ~HasParent(all[k]) \/ all[k].parent.name \notin DOMAIN d
         THEN LinkChildrenLenient(all, k + 1, d)
         ELSE LET p == d[all[k].parent.name]
              IN  LinkChildrenLenient(
                      [all EXCEPT ![k].parent = ParentTab(p),
                                  ![p].children = Append(@, k)],
                      k + 1, d)

\* lines 309-312: tab.parent = tabs[tab.parent]; tab.parent.add_child(tab)
RECURSIVE LinkChildren(_, _, _)
LinkChildren(all, k, d) ==
    IF k > Len(all) THEN [all |-> all, error |-> ""]
    ELSE IF ~HasParent(all[k]) THEN LinkChildren(all, k + 1, d)
    ELSE IF all[k].parent.name \notin DOMAIN d
         THEN [all |-> all, error |-> "KeyError"]
         ELSE LET p == d[all[k].parent.name]
              IN  LinkChildren(
                      [all EXCEPT ![k].parent = ParentTab(p),
                                  ![p].children = Append(@, k)],
                      k + 1, d)

LinkTabs ==
    /\ pc = "link_tabs"
    /\ LET d == CollectRoots(alltabs, 1, EmptyDict)
           r == LinkChildren(alltabs, 1, d)
       IN  /\ tabs' = d
           /\ alltabs' = r.all
           /\ IF r.error # ""
              THEN /\ err' = r.error
                   /\ pc' = "error"
              ELSE /\ pc' = "sort_tabs"
                   /\ err' = err
    /\ UNCHANGED <<opts, ini, today, ifoDefault, ifo, sections, general,
                   resolved, mode, i, fs, log>>

----------------------------------------------------------------------------
(* Lines 317-318: the display order *)

\* ord() of the characters of the tab names the model uses
Codes ==
    ("Summary" :> <<83, 117, 109, 109, 97, 114, 121>>)
    @@ ("Alpha" :> <<65, 108, 112, 104, 97>>)
    @@ ("alpha" :> <<97, 108, 112, 104, 97>>)
    @@ ("Beta" :> <<66, 101, 116, 97>>)
    @@ ("Zeta" :> <<90, 101, 116, 97>>)
    @@ ("1Hz" :> <<49, 72, 122>>)

\* str.lower() on ASCII codes
Lower(cs) ==
    [k \in DOMAIN cs |-> IF cs[k] >= 65 /\ cs[k] <= 90 THEN cs[k] + 32
                         ELSE cs[k]]

\* the key of line 318: t.name == 'Summary' and '_' or t.name.lower()
SortKey(name) == IF name = "Summary" THEN <<95>> ELSE Lower(Codes[name])

\* a < b on strings (sequences of codes)
RECURSIVE StrLess(_, _)
StrLess(a, b) ==
    IF b = <<>> THEN FALSE
    ELSE IF a = <<>> THEN TRUE
    ELSE IF a[1] # b[1] THEN a[1] < b[1]
    ELSE StrLess(Tail(a), Tail(b))

\* list.sort(key=...) is stable: x goes before the first element whose key
\* is greater than its own
RECURSIVE InsertByKey(_, _, _)
InsertByKey(sorted, x, all) ==
    IF sorted = <<>> THEN <<x>>
    ELSE IF StrLess(SortKey(all[x].name), SortKey(all[sorted[1]].name))
         THEN <<x>> \o sorted
         ELSE <<sorted[1]>> \o InsertByKey(Tail(sorted), x, all)

RECURSIVE SortByKey(_, _, _)
SortByKey(list, sorted, all) ==
    IF list = <<>> THEN sorted
    ELSE SortByKey(Tail(list), InsertByKey(sorted, list[1], all), all)

SortTabList(list, all) == SortByKey(list, <<>>, all)

\* dict.values(): the values, in an order the dictionary chooses
Values(d) ==
    {l \in [1..Cardinality(DOMAIN d) -> Range(d)] : Range(l) = Range(d)}

SortTabs ==
    /\ pc = "sort_tabs"
    /\ \E values \in Values(tabs) : tabs' = SortTabList(values, alltabs)
    /\ i' = 1
    /\ pc' = IF alltabs = <<>> THEN "mkdir_about" ELSE "process"
    /\ UNCHANGED <<err, opts, ini, today, ifoDefault, ifo, sections, general,
                   resolved, mode, alltabs, fs, log>>

----------------------------------------------------------------------------
\* a variant: the loop runs over the sorted list tabs, not over alltabs
ProcessTabInDisplayOrder ==
    /\ pc = "process"
    /\ log' = Append(log, Call("process", tabs[i], <<>>, {"config"}, <<>>,
                               NoneV))
    /\ \E raised \in BOOLEAN :
          IF raised
          THEN /\ err' = "ProcessError"
               /\ pc' = "error"
               /\ i' = i
          ELSE /\ err' = err
               /\ i' = IF i < Len(tabs) THEN i + 1 ELSE 1
               /\ pc' = IF i < Len(tabs) THEN "process" ELSE "mkdir_about"
    /\ UNCHANGED <<opts, ini, today, ifoDefault, ifo, sections, general,
                   resolved, mode, alltabs, tabs, fs>>

\* a variant: an exception of process is caught and the loop goes on
ProcessTabIsolated ==
    /\ pc = "process"
    /\ log' = Append(log, Call("process", i, <<>>, {"config"}, <<>>, NoneV))
    /\ \E raised \in BOOLEAN :
          err' = IF raised THEN "ProcessError" ELSE err
    /\ i' = IF i < Len(alltabs) THEN i + 1 ELSE 1
    /\ pc' = IF i < Len(alltabs) THEN "process" ELSE "mkdir_about"
    /\ UNCHANGED <<opts, ini, today, ifoDefault, ifo, sections, general,
                   resolved, mode, alltabs, tabs, fs>>

(* Lines 320-321: process all tabs.  One step per iteration; the call may
   raise, which ends the run. *)
ProcessTab ==
    /\ pc = "process"
    /\ log' = Append(log, Call("process", i, <<>>, {"config"}, <<>>, NoneV))
    /\ \E raised \in BOOLEAN :
          IF raised
          THEN /\ err' = "ProcessError"
               /\ pc' = "error"
               /\ i' = i
          ELSE /\ err' = err
               /\ i' = IF i < Len(alltabs) THEN i + 1 ELSE 1
               /\ pc' = IF i < Len(alltabs) THEN "process" ELSE "mkdir_about"
    /\ UNCHANGED <<opts, ini, today, ifoDefault, ifo, sections, general,
                   resolved, mode, alltabs, tabs, fs>>

----------------------------------------------------------------------------
(* Lines 326-333: write HTML *)

\* Tab.href: the directory of the tab, below the one of its parent
Href(all, k) ==
    IF all[k].parent.kind = "tab"
    THEN <<all[all[k].parent.tab].name, all[k].name>>
    ELSE <<all[k].name>>

\* line 327-328: the About tab is made and its directory created
MkdirAbout ==
    /\ pc = "mkdir_about"
    /\ fs' = Mkdir(fs, AboutPath)
    /\ log' = Append(log, Call("mkdir", ABOUT, AboutPath, {}, <<>>, NoneV))
    /\ pc' = "build_about"
    /\ UNCHANGED <<err, opts, ini, today, ifoDefault, ifo, sections, general,
                   resolved, mode, alltabs, tabs, i>>

\* line 329: about.build_html(css=, js=, tabs=tabs, config=config.files)
BuildAboutHtml ==
    /\ pc = "build_about"
    /\ fs' = WritePage(fs, AboutPath)
    /\ log' = Append(log, Call("build_html", ABOUT, AboutPath,
                               {"css", "js", "tabs", "config"}, tabs, NoneV))
    /\ i' = 1
    /\ pc' = IF alltabs = <<>> THEN "done" ELSE "mkdir_tab"
    /\ UNCHANGED <<err, opts, ini, today, ifoDefault, ifo, sections, general,
                   resolved, mode, alltabs, tabs>>

\* a variant: only the directories of the root tabs are created
MkdirTabRootsOnly ==
    /\ pc = "mkdir_tab"
    /\ IF alltabs[i].parent.kind = "tab"
       THEN fs' = fs /\ log' = log
       ELSE /\ fs' = Mkdir(fs, Href(alltabs, i))
            /\ log' = Append(log, Call("mkdir", i, Href(alltabs, i), {},
                                       <<>>, NoneV))
    /\ pc' = "build_tab"
    /\ UNCHANGED <<err, opts, ini, today, ifoDefault, ifo, sections, general,
                   resolved, mode, alltabs, tabs, i>>

\* line 332: mkdir(tab.href), in the loop over alltabs
MkdirTab ==
    /\ pc = "mkdir_tab"
    /\ fs' = Mkdir(fs, Href(alltabs, i))
    /\ log' = Append(log, Call("mkdir", i, Href(alltabs, i), {}, <<>>, NoneV))
    /\ pc' = "build_tab"
    /\ UNCHANGED <<err, opts, ini, today, ifoDefault, ifo, sections, general,
                   resolved, mode, alltabs, tabs, i>>

\* line 333: tab.build_html(css=, js=, tabs=tabs, about=about.index)
BuildTabHtml ==
    /\ pc = "build_tab"
    /\ fs' = WritePage(fs, Href(alltabs, i))
    /\ log' = Append(log, Call("build_html", i, Href(alltabs, i),
                               {"css", "js", "tabs", "about"}, tabs,
                               Some(AboutIndex)))
    /\ i' = IF i < Len(alltabs) THEN i + 1 ELSE i
    /\ pc' = IF i < Len(alltabs) THEN "mkdir_tab" ELSE "done"
    /\ UNCHANGED <<err, opts, ini, today, ifoDefault, ifo, sections, general,
                   resolved, mode, alltabs, tabs>>

----------------------------------------------------------------------------
(* Inputs of a run *)

Optional(S) == {NoneV} \cup {Some(v) : v \in S}

Section(name, options) == [name |-> name, opts |-> options]
TabSection(name, parent) == [name |-> name, parent |-> parent]

NoItems == [key \in {} |-> <<>>]
Shared == [key \in {"x"} |-> <<"1">>]
Group(value, items) ==
    [key \in {"channels"} \cup DOMAIN items |->
        IF key = "channels" THEN value ELSE items[key]]

\* sections of the INI files other than the tab-* ones
SectionPool ==
    {Section(<<GROUP, "foo">>, Group(<<"A", ",", "B">>, Shared)),
     Section(<<GROUP, "foo">>, Group(<<"A", ",", "A">>, Shared)),
     Section(<<GROUP, "foo">>, Shared),
     Section(<<GROUP, "bar">>, Group(<<"B">>, NoItems)),
     Section(<<GROUP, "bar">>, Group(<<"C", ",">>, NoItems)),
     Section(<<"A">>, Shared),
     Section(<<PH, "-x">>, Shared),
     Section(<<PH, ":", PH>>, NoItems),
     Section(<<"H1", "-x">>, NoItems)}

\* a parser holds one section per name
DistinctNames(secs) ==
    \A j, k \in DOMAIN secs : secs[j].name = secs[k].name => j = k

SectionLists == {l \in SeqsUpTo(SectionPool, MaxSections) : DistinctNames(l)}

AnOption ==
    [day |-> Some("19800107"), week |-> NoneV, month |-> NoneV,
     year |-> NoneV, gps_start_time |-> NoneV, gps_end_time |-> NoneV,
     ifo |-> Some("H1")]

AnIni ==
    [ifos |-> <<NoneV>>,
     sections |-> <<Section(<<GROUP, "foo">>, Group(<<"A", ",", "B">>, Shared))>>,
     tabsecs |-> <<TabSection("Summary", NoneV),
                   TabSection("Alpha", Some("Summary"))>>,
     startOfWeek |-> NoneV]

\* datetime.utcnow() on some day (the calendar [start-of-week] option is a
\* weekday number, 0 for Monday; day 541 is the eve of a leap second)
ADay == StrptimeDay["19800107"]

EmptyTree == [path \in {} |-> {}]

\* what an earlier run into the same output directory left behind
OldTree ==
    [path \in {AboutPath, PlotDir, <<"Summary">>, <<"Summary", "Alpha">>}
        |-> {"index.html", "old.png"}]

InitWith(o, c, tree, now) ==
    /\ pc = "read_config"
    /\ err = ""
    /\ opts = o
    /\ ini = c
    /\ today = now
    /\ ifoDefault = NoneV
    /\ ifo = NoneV
    /\ sections = <<>>
    /\ general = [start |-> NoneV, end |-> NoneV]
    /\ resolved = ""
    /\ mode = ""
    /\ alltabs = <<>>
    /\ tabs = EmptyDict
    /\ i = 0
    /\ fs = tree
    /\ log = <<>>

\* tab-* sections: any names and declared parents
TabNames == {"Summary", "Alpha", "1Hz"}
TabSections == [name : TabNames, parent : Optional({"Summary", "Alpha", ""})]

\* into an empty output directory, or into the one an earlier run of the
\* tabs Summary and Alpha left
Init ==
    \/ \E t \in SeqsUpTo(TabSections, MaxTabs) :
           InitWith(AnOption, [AnIni EXCEPT !.tabsecs = t], EmptyTree, ADay)
    \/ \E t \in SeqsUpTo({s \in TabSections : s.name \in {"Summary", "Alpha"}},
                         MaxTabs) :
           InitWith(AnOption, [AnIni EXCEPT !.tabsecs = t], OldTree, ADay)

\* tab-* sections without parents, over every name of Codes
InitSort ==
    \E t \in SeqsUpTo([name : DOMAIN Codes, parent : {NoneV}], MaxTabs) :
        InitWith(AnOption, [AnIni EXCEPT !.tabsecs = t], EmptyTree, ADay)

\* the time options of the command line and the [calendar] section
TimeOptions ==
    [day : Optional({"", "2014", "19800107"}),
     week : Optional({"19800106", "19800107"}),
     month : Optional({"198106", "1981-06"}),
     year : Optional({"1981"}),
     gps_start_time : Optional(0..MaxGps),
     gps_end_time : Optional(0..MaxGps),
     ifo : {Some("H1")}]

InitOptions ==
    \E o \in TimeOptions, w \in Optional({0}), now \in {ADay, 541} :
        InitWith(o, [AnIni EXCEPT !.startOfWeek = w], EmptyTree, now)

\* --ifo and the [DEFAULT] ifo of each INI file, with a placeholder section;
\* or the sections of the INI files, with either instrument code
InitConfig ==
    \/ \E code \in Optional({"", "H1", "L1"}),
          files \in SeqsUpTo(Optional({"H1", "L1"}), MaxFiles) :
           InitWith([AnOption EXCEPT !.ifo = code],
                    [AnIni EXCEPT !.ifos = files,
                                  !.sections = <<Section(<<PH, "-x">>, Shared)>>],
                    EmptyTree, ADay)
    \/ \E code \in {"H1", "L1"}, secs \in SectionLists :
           InitWith(AnOption,
                    [AnIni EXCEPT !.ifos = <<Some(code)>>, !.sections = secs],
                    EmptyTree, ADay)

Next ==
    \/ ReadConfiguration
    \/ ParseIFO
    \/ InterpolateSectionNames
    \/ CheckTimeOptions
    \/ ResolveTime
    \/ SetGeneral
    \/ SetMode
    \/ ExpandChannelGroups
    \/ BuildDirectories
    \/ ReadTabs
    \/ LinkTabs
    \/ SortTabs
    \/ ProcessTab
    \/ MkdirAbout
    \/ BuildAboutHtml
    \/ MkdirTab
    \/ BuildTabHtml

Spec == Init /\ [][Next]_vars
SpecSort == InitSort /\ [][Next]_vars
SpecOptions == InitOptions /\ [][Next]_vars
SpecConfig == InitConfig /\ [][Next]_vars

----------------------------------------------------------------------------
(* Time-range selection (checked under SpecOptions) *)

\* the number of time-range forms on the command line: --day, --week,
\* --month, --year, and the GPS form (either of its two options)
FormsSupplied(o) ==
    Count(IsGiven(o.day)) + Count(IsGiven(o.week)) + Count(IsGiven(o.month))
    + Count(IsGiven(o.year))
    + Count(IsGiven(o.gps_start_time) \/ IsGiven(o.gps_end_time))

\* C1: a run given more than one time-range form fails at the check of the
\* time options, so it never reaches the computation of the GPS times (the
\* options are still as parsed when pc = "resolve_time").
C1_MutuallyExclusive ==
    pc = "resolve_time" => FormsSupplied(opts) <= 1

\* C2: once the span is stored in [general], one form determined it and
\* the stored end time is strictly greater than the stored start time.
C2_EndAfterStart ==
    general.start # NoneV =>
        /\ resolved \in {"day", "week", "month", "year", "gps", "today"}
        /\ general.end # NoneV
        /\ general.end[1] > general.start[1]

----------------------------------------------------------------------------
(* Instrument code and section names (checked under SpecConfig) *)

\* the 'ifo' the INI files give in [DEFAULT]: the last file that has one
RECURSIVE LastGiven(_)
LastGiven(files) ==
    IF files = <<>> THEN NoneV
    ELSE IF files[Len(files)] # NoneV THEN files[Len(files)]
    ELSE LastGiven(SubSeq(files, 1, Len(files) - 1))

IniIfo == LastGiven(ini.ifos)

IfoParsed ==
    \/ pc \notin {"read_config", "parse_ifo", "error"}
    \/ pc = "error" /\ err # "ValueError: IFO must be given"

AfterInterpolation == IfoParsed /\ pc # "interpolate"

\* every section that began with the placeholder is held under the
\* substituted name, with its options, and no name begins with it any more
PlaceholdersRenamed ==
    /\ \A k \in DOMAIN ini.sections :
          StartsWith(ini.sections[k].name, PH) =>
              \E j \in DOMAIN sections :
                  /\ sections[j].name =
                         [n \in DOMAIN ini.sections[k].name |->
                             IF ini.sections[k].name[n] = PH THEN ifo[1]
                             ELSE ini.sections[k].name[n]]
                  /\ sections[j].opts = ini.sections[k].opts
    /\ \A j \in DOMAIN sections : ~StartsWith(sections[j].name, PH)

NoIfoFailure ==
    /\ pc = "error"
    /\ err = "ValueError: IFO must be given"
    /\ ifo = NoneV
    /\ sections = ini.sections

\* C3 as stated: the --ifo value, when given, is the instrument code, else
\* the [DEFAULT] value of the INI files; with neither the run fails before
\* any section is renamed; placeholder sections are renamed with the code.
C3_CommandLineOverrides ==
    /\ IfoParsed =>
          ifo = IF TruthyStr(opts.ifo) THEN opts.ifo ELSE IniIfo
    /\ (pc \notin {"read_config", "parse_ifo"}
            /\ ~TruthyStr(opts.ifo) /\ IniIfo = NoneV) => NoIfoFailure
    /\ AfterInterpolation => PlaceholdersRenamed

\* C3, amended: the [DEFAULT] 'ifo' of the INI files, when they give one,
\* is the instrument code (it overrides --ifo), else the --ifo value; with
\* neither the run fails with the configuration error before any section
\* is renamed; placeholder sections are renamed with the resolved code.
C3_IniOverrides ==
    /\ IfoParsed =>
          /\ ifo # NoneV
          /\ ifo = IF IniIfo # NoneV THEN IniIfo ELSE opts.ifo
    /\ (pc \notin {"read_config", "parse_ifo"}
            /\ ~TruthyStr(opts.ifo) /\ IniIfo = NoneV) => NoIfoFailure
    /\ err = "ValueError: IFO must be given" =>
          ~TruthyStr(opts.ifo) /\ IniIfo = NoneV
    /\ AfterInterpolation => PlaceholdersRenamed

\* --ifo L1 against an INI file with ifo = H1, and a placeholder section
C3_Witness ==
    /\ pc = "check_time"
    /\ opts.ifo = Some("L1")
    /\ IniIfo = Some("H1")
    /\ ifo = Some("H1")
    /\ <<PH, "-x">> \in Names(ini.sections)
    /\ <<"H1", "-x">> \in Names(sections)

----------------------------------------------------------------------------
(* Channel groups (checked under SpecConfig) *)

\* the sections the parser holds when the expansion starts: those of the
\* INI files, the placeholder ones renamed
BeforeExpansion == Interpolate(ini.sections, ifo[1])

IsGroup(sec) == StartsWith(sec.name, GROUP)

Groups == {k \in DOMAIN BeforeExpansion : IsGroup(BeforeExpansion[k])}

HasChannels(k) == "channels" \in DOMAIN BeforeExpansion[k].opts

\* the names n1..nk of group k: the pieces of its 'channels' value
ChannelNames(k) ==
    LET value == BeforeExpansion[k].opts["channels"]
        commas == {n \in DOMAIN value : value[n] = ","}
        starts == {1} \cup {n + 1 : n \in commas}
    IN  {[m \in 1..((CHOOSE e \in commas \cup {Len(value) + 1} :
                        e >= b /\ \A c \in commas : c >= b => e <= c) - b)
              |-> value[b + m - 1]] : b \in starts}

\* the key/value set K of group k: its options other than 'channels'
SharedItems(k) ==
    LET options == BeforeExpansion[k].opts
    IN  {<<key, options[key]>> : key \in (DOMAIN options) \ {"channels"}}

Items(sec) == {<<key, sec.opts[key]>> : key \in DOMAIN sec.opts}

ExpansionOver ==
    \/ pc \in {"build_dirs", "read_tabs", "link_tabs", "sort_tabs",
               "process", "mkdir_about", "build_about", "mkdir_tab",
               "build_tab", "done"}
    \/ pc = "error" /\ err \in {"NoOptionError", "DuplicateSectionError",
                                "KeyError", "ProcessError"}

ExpansionCompleted ==
    ExpansionOver /\ err \notin {"NoOptionError", "DuplicateSectionError"}

\* every name of every group has its section, holding exactly K
GroupsExpanded ==
    \A k \in Groups : HasChannels(k) =>
        \A name \in ChannelNames(k) :
            \E j \in DOMAIN sections :
                /\ sections[j].name = name
                /\ Items(sections[j]) = SharedItems(k)

\* the sections added so far each belong to a group that has 'channels'
AddedFromGroups ==
    /\ Len(sections) >= Len(BeforeExpansion)
    /\ SubSeq(sections, 1, Len(BeforeExpansion)) = BeforeExpansion
    /\ \A j \in (Len(BeforeExpansion) + 1)..Len(sections) :
          \E k \in Groups :
              /\ HasChannels(k)
              /\ sections[j].name \in ChannelNames(k)
              /\ Items(sections[j]) = SharedItems(k)

\* some channel name is that of a section the parser held, is listed twice
\* in its group, or is listed in two groups
NameClash ==
    \E k \in Groups :
        /\ HasChannels(k)
        /\ \/ ChannelNames(k) \cap Names(BeforeExpansion) # {}
           \/ Cardinality(ChannelNames(k))
                  # Cardinality({n \in DOMAIN BeforeExpansion[k].opts["channels"] :
                                    BeforeExpansion[k].opts["channels"][n] = ","}) + 1
           \/ \E g \in Groups \ {k} :
                  HasChannels(g) /\ ChannelNames(k) \cap ChannelNames(g) # {}

\* C4 as stated: after the expansion every name of every group has its
\* section with exactly the group's other options; a group without
\* 'channels' makes the run fail with the missing-option error and no
\* section is created for it.
C4_EveryNameExpanded ==
    ExpansionOver =>
        IF \A k \in Groups : HasChannels(k)
        THEN GroupsExpanded
        ELSE err = "NoOptionError" /\ AddedFromGroups

\* C4, amended: when the expansion completes, every name of every group has
\* its section with exactly the group's other options (and not 'channels');
\* it fails with the missing-option error only at a group without
\* 'channels', for which no section is created; it fails with a
\* duplicate-section error, instead of creating the section, only when a
\* channel name clashes with an existing section or another listed name;
\* and it fails in no other case.
C4_ExpandedUnlessClash ==
    /\ ExpansionCompleted =>
          /\ \A k \in Groups : HasChannels(k)
          /\ GroupsExpanded
          /\ AddedFromGroups
    /\ (ExpansionOver /\ err = "NoOptionError") =>
          /\ \E k \in Groups : ~HasChannels(k)
          /\ AddedFromGroups
    /\ (ExpansionOver /\ err = "DuplicateSectionError") =>
          /\ NameClash
          /\ AddedFromGroups
    /\ (ExpansionOver /\ ~NameClash /\ \A k \in Groups : HasChannels(k)) =>
          ExpansionCompleted

\* channels-foo with channels = A,B and x = 1 has become sections A and B
C4_Witness ==
    /\ pc = "build_dirs"
    /\ \E k \in Groups :
          /\ HasChannels(k)
          /\ ChannelNames(k) = {<<"A">>, <<"B">>}
          /\ SharedItems(k) = {<<"x", <<"1">>>>}
    /\ \E j \in DOMAIN sections :
          sections[j].name = <<"A">> /\ Items(sections[j]) = {<<"x", <<"1">>>>}
    /\ \E j \in DOMAIN sections :
          sections[j].name = <<"B">> /\ Items(sections[j]) = {<<"x", <<"1">>>>}

----------------------------------------------------------------------------
(* Tab tree (checked under Spec) *)

Declared(k) == ini.tabsecs[k]

DeclaresParent(k) == TruthyStr(Declared(k).parent)

\* the tabs declared without a parent
DeclaredRoots == {k \in DOMAIN ini.tabsecs : ~DeclaresParent(k)}

\* the tabs that declare name n as their parent
DeclaredChildren(n) ==
    {k \in DOMAIN ini.tabsecs : DeclaresParent(k) /\ Declared(k).parent[1] = n}

LinkOver ==
    \/ pc \in {"sort_tabs", "process", "mkdir_about", "build_about",
               "mkdir_tab", "build_tab", "done"}
    \/ pc = "error" /\ err \in {"KeyError", "ProcessError"}

Linked == LinkOver /\ err # "KeyError"

\* the Tab objects of the root mapping (a dict, later the sorted list)
RootTabs == Range(tabs)

EachOnce(seq, S) == Range(seq) = S /\ Len(seq) = Cardinality(S)

ChildrenLinked ==
    \A r \in RootTabs :
        /\ EachOnce(alltabs[r].children, DeclaredChildren(alltabs[r].name))
        /\ \A k \in DeclaredChildren(alltabs[r].name) :
              alltabs[k].parent = ParentTab(r)

\* C5 as stated: after the tree build the root mapping holds exactly the
\* tabs declared without a parent, keyed by name; the children of a root
\* are exactly the tabs that declare its name as parent, each once, and
\* their parent is the root's Tab object.
C5_RootsAreParentless ==
    Linked =>
        /\ RootTabs = DeclaredRoots
        /\ pc = "sort_tabs" => \A r \in RootTabs : tabs[alltabs[r].name] = r
        /\ ChildrenLinked

\* the last declared of the parent-less tabs of each name
LastRoots ==
    {k \in DeclaredRoots :
        \A j \in DeclaredRoots :
            Declared(j).name = Declared(k).name => j <= k}

\* C5, amended: after the tree build the root mapping holds, for each name
\* of a tab declared without a parent, the last such tab declared (one root
\* per name); the children of a root of the mapping are exactly the tabs
\* that declare its name as parent, each once, and their parent is the
\* root's Tab object; a tab outside the mapping has no children.
C5_LastRootPerName ==
    Linked =>
        /\ Len(alltabs) = Len(ini.tabsecs)
        /\ RootTabs = LastRoots
        /\ pc = "sort_tabs" =>
              /\ DOMAIN tabs = {Declared(k).name : k \in DeclaredRoots}
              /\ \A r \in RootTabs : tabs[alltabs[r].name] = r
        /\ ChildrenLinked
        /\ \A k \in DOMAIN alltabs :
              /\ alltabs[k].name = Declared(k).name
              /\ k \notin RootTabs => alltabs[k].children = <<>>
              /\ k \in DeclaredRoots => alltabs[k].parent.kind # "tab"

\* [Summary (no parent), Alpha (parent Summary)]: Summary has one child
C5_Witness ==
    /\ pc = "sort_tabs"
    /\ Len(alltabs) = 2
    /\ alltabs[1].name = "Summary" /\ alltabs[2].name = "Alpha"
    /\ tabs["Summary"] = 1
    /\ alltabs[1].children = <<2>>
    /\ alltabs[2].parent = ParentTab(1)

\* some tab declares a parent that is not the name of a parent-less tab
UnresolvableParent ==
    \E k \in DOMAIN ini.tabsecs :
        /\ DeclaresParent(k)
        /\ Declared(k).parent[1] \notin {Declared(j).name : j \in DeclaredRoots}

\* C6: a declared parent that is not the name of a parent-less tab makes the
\* tree build fail with the lookup error; no tab that declares a parent is
\* in the root mapping, and no tab is processed or rendered.  The lookup
\* error has no other cause.
C6_UnresolvableParentFails ==
    /\ (LinkOver /\ UnresolvableParent) =>
          /\ pc = "error"
          /\ err = "KeyError"
          /\ log = <<>>
          /\ \A k \in DOMAIN ini.tabsecs : DeclaresParent(k) => k \notin RootTabs
          /\ DOMAIN tabs \subseteq {Declared(j).name : j \in DeclaredRoots}
    /\ err = "KeyError" => UnresolvableParent

\* the declared parent is itself a tab with a parent
C6_Witness ==
    /\ pc = "error"
    /\ err = "KeyError"
    /\ \E k, j \in DOMAIN ini.tabsecs :
          /\ DeclaresParent(k)
          /\ DeclaresParent(j)
          /\ Declared(k).parent[1] = Declared(j).name
          /\ Declared(j).parent[1] \in {Declared(r).name : r \in DeclaredRoots}

----------------------------------------------------------------------------
(* Display order (checked under SpecSort) *)

SortOver ==
    \/ pc \in {"process", "mkdir_about", "build_about", "mkdir_tab",
               "build_tab", "done"}
    \/ pc = "error" /\ err = "ProcessError"

NameAt(j) == alltabs[tabs[j]].name

\* C7: in the sorted list a tab named "Summary" comes before every other
\* tab, and the other tabs are in case-insensitive alphabetical order.
C7_SummaryFirst ==
    SortOver =>
        \A j, m \in DOMAIN tabs :
            /\ (NameAt(j) = "Summary" /\ NameAt(m) # "Summary") => j < m
            /\ (j < m /\ NameAt(j) # "Summary" /\ NameAt(m) # "Summary") =>
                  ~StrLess(Lower(Codes[NameAt(m)]), Lower(Codes[NameAt(j)]))

----------------------------------------------------------------------------
(* Processing and HTML writing (checked under Spec) *)

IsProcess(c) == c.op = "process"
IsBuild(c) == c.op = "build_html"
IsMkdir(c) == c.op = "mkdir"

TabsOf(calls) == [k \in DOMAIN calls |-> calls[k].tab]

UpTo(n) == [k \in 1..n |-> k]

\* C8: in a run that completes every declared tab is processed exactly
\* once, in declaration order and with the configuration, and rendered
\* exactly once; in every run each call of process comes before the first
\* call of build_html, the one of the About page included.
C8_ProcessThenRender ==
    /\ pc = "done" =>
          /\ Len(alltabs) = Len(ini.tabsecs)
          /\ \A k \in DOMAIN alltabs : alltabs[k].name = Declared(k).name
          /\ TabsOf(SelectSeq(log, IsProcess)) = UpTo(Len(ini.tabsecs))
          /\ TabsOf(SelectSeq(log, IsBuild))
                 = <<ABOUT>> \o UpTo(Len(ini.tabsecs))
    /\ \A j \in DOMAIN log : IsProcess(log[j]) => "config" \in log[j].kw
    /\ \A j, m \in DOMAIN log :
          (IsProcess(log[j]) /\ IsBuild(log[m])) => j < m

\* three tabs, one a child, whose display order is not the declared order
C8_Witness ==
    /\ pc = "done"
    /\ Len(alltabs) = 3
    /\ \E k \in DOMAIN alltabs : alltabs[k].parent.kind = "tab"
    /\ tabs = <<2, 1>>

\* C9: when the process call of the k-th tab raises, the run ends there:
\* the calls made are the process calls of tabs 1..k in order, no page is
\* rendered and no directory of a tab is created.
C9_NoPartialOutput ==
    err = "ProcessError" =>
        /\ pc = "error"
        /\ i \in DOMAIN alltabs
        /\ TabsOf(log) = UpTo(i)
        /\ \A j \in DOMAIN log : IsProcess(log[j])
        /\ fs \in {Mkdir(EmptyTree, PlotDir), Mkdir(OldTree, PlotDir)}

\* the second of three tabs raised, into an empty output directory
C9_Witness ==
    /\ err = "ProcessError"
    /\ Len(alltabs) = 3
    /\ i = 2
    /\ DOMAIN fs = {PlotDir}

RenderedAfterMkdir ==
    \A j \in DOMAIN log : IsBuild(log[j]) =>
        /\ \E m \in 1..(j - 1) :
              /\ IsMkdir(log[m])
              /\ log[m].tab = log[j].tab
              /\ log[m].path = log[j].path
        /\ log[j].path \in DOMAIN fs
        /\ "index.html" \in fs[log[j].path]

AboutRenderedFirst ==
    /\ \A j \in DOMAIN log :
          (IsBuild(log[j]) /\ log[j].tab # ABOUT) =>
              \E m \in 1..(j - 1) : IsBuild(log[m]) /\ log[m].tab = ABOUT
    /\ pc = "done" => \E m \in DOMAIN log : IsBuild(log[m]) /\ log[m].tab = ABOUT

\* mkdir neither fails nor touches a directory that is already there
MkdirKeepsContents ==
    pc \in {"build_dirs", "mkdir_about", "mkdir_tab"} =>
        /\ err' = err
        /\ pc' # "error"
        /\ \A path \in DOMAIN fs : path \in DOMAIN fs' /\ fs'[path] = fs[path]

\* C10 as stated: About is rendered first, each directory is created before
\* its page is rendered, mkdir leaves an existing directory as it is, and
\* every page is rendered with the sorted root-tab list and a link to the
\* About page.
C10_EveryPageLinksAbout ==
    /\ AboutRenderedFirst
    /\ RenderedAfterMkdir
    /\ \A j \in DOMAIN log : IsBuild(log[j]) =>
          /\ log[j].nav = tabs
          /\ "about" \in log[j].kw
          /\ log[j].about = Some(AboutIndex)

PagesRendered ==
    /\ AboutRenderedFirst
    /\ RenderedAfterMkdir
    /\ \A j \in DOMAIN log : IsBuild(log[j]) =>
          /\ {"css", "js", "tabs"} \subseteq log[j].kw
          /\ log[j].nav = tabs
          /\ IF log[j].tab = ABOUT
             THEN /\ "config" \in log[j].kw
                  /\ "about" \notin log[j].kw
                  /\ log[j].about = NoneV
             ELSE /\ "about" \in log[j].kw
                  /\ log[j].about = Some(AboutIndex)

\* C10, amended: About is always made and rendered before any declared tab;
\* each directory is created before its page is rendered; mkdir on an
\* existing path does not fail and leaves its contents unchanged; every
\* declared tab's page is rendered with the same sorted root-tab list and a
\* link to the About page, and the About page with the same list and the
\* configuration files, without that link.
C10_DeclaredPagesLinkAbout ==
    []PagesRendered /\ [][MkdirKeepsContents]_vars

\* a run into the directory of an earlier run: the old entries are kept
C10_Witness ==
    /\ pc = "done"
    /\ Len(alltabs) = 2
    /\ alltabs[2].parent.kind = "tab"
    /\ <<"Summary">> \in DOMAIN fs
    /\ fs[<<"Summary">>] = {"index.html", "old.png"}
    /\ fs[<<"Summary", "Alpha">>] = {"index.html", "old.png"}
    /\ fs[AboutPath] = {"index.html", "old.png"}

====
